---- MODULE Spec2Model ----
(***************************************************************************)
(* A model of the paper screening tool: src/streamlit_app.py (the PubMed   *)
(* flat-file parser and run_analysis) and src/ss2.py (the PaperAnalysis    *)
(* schema and PaperEvaluator).                                             *)
(*                                                                         *)
(* Two specifications share the module:                                    *)
(*   Spec       run_analysis, run after run, with the collaborator's       *)
(*              answers and the outcome of the file write chosen freely;   *)
(*   SpecParse  parse_pubmed_file applied to a bounded set of file texts.  *)
(***************************************************************************)
EXTENDS Integers, Sequences, FiniteSets, TLC

VARIABLES
    pc,          \* run_analysis: "idle", "loop", "save", "returned"
    papers,      \* df.head(paper_limit).to_dict("records")
    idx,         \* the for loop's position in papers, from 1
    results,     \* the list results of run_analysis
    st_log,      \* the st.error / st.warning calls of the run, in order
    calls,       \* calls[i]: invocations of the collaborator for papers[i]
    skipped,     \* the positions whose loop body ended in the except clause
    raw,         \* the collaborator's last answer, before validation
    analysis,    \* what evaluate_paper returned for it (or the error raised)
    file,        \* candidates.json
    file_before, \* candidates.json as it was when the run started
    write,       \* the run's write of candidates.json: "none", "ok", "failed"
    ret,         \* the value run_analysis returned
    exit,        \* how the run ended: "running", "return", "raise"
    src_lines,   \* the uploaded file, line by line
    content,     \* parse_pubmed_file: its text, a sequence of characters
    df,          \* parse_pubmed_file: the rows of the DataFrame it returned
    ppc          \* parse_pubmed_file: "start", "uploaded", "parsed"

runVars == <<pc, papers, idx, results, st_log, calls, skipped, raw, analysis,
             file, file_before, write, ret, exit>>
parseVars == <<src_lines, content, df, ppc>>
vars == <<pc, papers, idx, results, st_log, calls, skipped, raw, analysis,
          file, file_before, write, ret, exit, src_lines, content, df, ppc>>

(***************************************************************************)
(* Bounds of the model.                                                    *)
(***************************************************************************)
MaxPapers == 3      \* rows of the DataFrame handed to run_analysis
MaxLines == 4       \* lines of an uploaded file

(***************************************************************************)
(* Values of a JSON / Python payload.  Every value is a shape and a list   *)
(* of items, each item a list of strings:                                  *)
(*   none, missing (key absent)      no item                               *)
(*   str, num, int, bool             one item <<text>>                     *)
(*   list of strings                 one item <<text>> per element         *)
(*   map                             one item <<key, shape, text>> per key *)
(***************************************************************************)
None == [shape |-> "none", items |-> <<>>]
Missing == [shape |-> "missing", items |-> <<>>]
Invalid == [shape |-> "invalid", items |-> <<>>]
Str(s) == [shape |-> "str", items |-> <<<<s>>>>]
Num(s) == [shape |-> "num", items |-> <<<<s>>>>]
IntV(s) == [shape |-> "int", items |-> <<<<s>>>>]
Bool(s) == [shape |-> "bool", items |-> <<<<s>>>>]
List(ss) == [shape |-> "list", items |-> [i \in DOMAIN ss |-> <<ss[i]>>]]
Map(es) == [shape |-> "map", items |-> es]
Text(v) == v.items[1][1]

\* The strings float() parses, among the strings of the model.
NumericStrings == {"0.85", "0.91"}

(***************************************************************************)
(* src/ss2.py: class PaperAnalysis(BaseModel).                             *)
(*                                                                         *)
(* pydantic (v2: field_validator exists in no other version) validates     *)
(* each field against its annotation first.  A validator declared with     *)
(* @field_validator(name) has mode "after": it is given the value the      *)
(* annotation's own validation produced, and is not run when that          *)
(* validation failed.  The model is not strict, so a field is validated    *)
(* in lax mode: float accepts a string that float() parses.                *)
(***************************************************************************)
Fields == {"title", "publication_date", "is_relevant", "relevance_explanation",
           "study_type", "sample_size", "key_findings", "stone_free_rate",
           "methodology_quality", "limitations", "pmid", "abstract"}

\* pmid: Optional[str] = None and abstract: Optional[str] = None are the only
\* fields with a default; Optional[...] without one is still a required key.
HasDefault(f) == f \in {"pmid", "abstract"}

RECURSIVE Join(_, _)
\* sep.join(ss) for a list of strings
Join(sep, ss) ==
    IF Len(ss) = 0 THEN ""
    ELSE IF Len(ss) = 1 THEN ss[1]
    ELSE ss[1] \o sep \o Join(sep, Tail(ss))

\* str
TypeStr(v) == IF v.shape = "str" THEN v ELSE Invalid

\* bool, for the shapes the payloads of the model give is_relevant
TypeBool(v) == IF v.shape = "bool" THEN v ELSE Invalid

\* int
TypeInt(v) == IF v.shape = "int" THEN v ELSE Invalid

\* float, strict: a float, or an int
StrictFloat(v) == IF v.shape \in {"num", "int"} THEN Num(Text(v)) ELSE Invalid

\* float, lax: also a string that parses as a number
LaxFloat(v) ==
    IF v.shape \in {"num", "int"} THEN Num(Text(v))
    ELSE IF v.shape = "str" /\ Text(v) \in NumericStrings THEN Num(Text(v))
    ELSE Invalid

\* Dict[str, float], strict: a dict whose values are floats
StrictDict(v) ==
    IF v.shape = "map" /\ \A i \in DOMAIN v.items : v.items[i][2] \in {"num", "int"}
    THEN Map([i \in DOMAIN v.items |-> <<v.items[i][1], "num", v.items[i][3]>>])
    ELSE Invalid

\* Dict[str, float], lax: the values are validated as float in lax mode
LaxDict(v) ==
    IF /\ v.shape = "map"
       /\ \A i \in DOMAIN v.items :
            \/ v.items[i][2] \in {"num", "int"}
            \/ v.items[i][2] = "str" /\ v.items[i][3] \in NumericStrings
    THEN Map([i \in DOMAIN v.items |-> <<v.items[i][1], "num", v.items[i][3]>>])
    ELSE Invalid

\* Union[float, Dict[str, float]] (smart mode): each member in strict mode,
\* then each member in lax mode
TypeFloatOrDict(v) ==
    IF StrictFloat(v) # Invalid THEN StrictFloat(v)
    ELSE IF StrictDict(v) # Invalid THEN StrictDict(v)
    ELSE IF LaxFloat(v) # Invalid THEN LaxFloat(v)
    ELSE LaxDict(v)

\* Optional[T], validated being what T makes of v
Optional(v, validated) == IF v.shape = "none" THEN v ELSE validated

\* @field_validator("limitations")
convert_list_to_string(v) ==
    IF v.shape = "list"
    THEN Str(Join(". ", [i \in DOMAIN v.items |-> v.items[i][1]]))
    ELSE v

\* @field_validator("key_findings")
convert_dict_to_string(v) ==
    IF v.shape = "map"
    THEN Str(Join(". ", [i \in DOMAIN v.items |->
                           v.items[i][1] \o ": " \o v.items[i][3]]))
    ELSE v

\* The annotation of field f, applied to a value that is present
Annotation(f, v) ==
    CASE f \in {"title", "relevance_explanation"} -> TypeStr(v)
      [] f = "is_relevant" -> TypeBool(v)
      [] f = "sample_size" -> Optional(v, TypeInt(v))
      [] f = "stone_free_rate" -> Optional(v, TypeFloatOrDict(v))
      [] OTHER -> Optional(v, TypeStr(v))

\* The after-validator of field f, if it has one
AfterValidator(f, v) ==
    CASE f = "limitations" -> convert_list_to_string(v)
      [] f = "key_findings" -> convert_dict_to_string(v)
      [] OTHER -> v

\* One field of PaperAnalysis(**d): its value, or Invalid
ValidateField(f, v) ==
    IF v.shape = "missing"
    THEN IF HasDefault(f) THEN None ELSE Invalid
    ELSE IF Annotation(f, v) = Invalid THEN Invalid
    ELSE AfterValidator(f, Annotation(f, v))

NullRec == [f \in Fields |-> None]
Raised(e) == [ok |-> FALSE, rec |-> NullRec, err |-> e]
Returned(r) == [ok |-> TRUE, rec |-> r, err |-> ""]

\* PaperAnalysis(**d): the validated model, or the ValidationError raised
PaperAnalysis(d) ==
    LET v == [f \in Fields |-> ValidateField(f, d[f])]
    IN  IF \E f \in Fields : v[f] = Invalid
        THEN Raised("ValidationError")
        ELSE Returned(v)

\* analysis.model_dump()
model_dump(a) == a

(***************************************************************************)
(* The inputs of run_analysis: the rows of the DataFrame (as                *)
(* parse_pubmed_file leaves them: a non-empty pmid, collapsed whitespace)  *)
(* and the answers of the external collaborator.                           *)
(***************************************************************************)
Uploaded ==
    << [pmid |-> "101", title |-> "Trial A", abstract |-> "Abstract A",
        publication_date |-> "Jan 2020"],
       [pmid |-> "102", title |-> "Trial B", abstract |-> "",
        publication_date |-> "2019"],
       [pmid |-> "103", title |-> "Trial C", abstract |-> "Abstract C",
        publication_date |-> ""],
       [pmid |-> "104", title |-> "", abstract |-> "Abstract D",
        publication_date |-> "Mar 2021"],
       [pmid |-> "105", title |-> "Trial E", abstract |-> "Abstract E",
        publication_date |-> "2022"] >>

\* st.session_state.df: the rows parsed from the uploaded file, or none
Dfs == { <<>>, SubSeq(Uploaded, 1, MaxPapers) }

\* What the collaborator answers when it restates the paper in its own words
BasePayload ==
    [title |-> Str("LLM title"), publication_date |-> Str("LLM date"),
     is_relevant |-> Bool("false"), relevance_explanation |-> Str("why"),
     study_type |-> Str("RCT"), sample_size |-> IntV("120"),
     key_findings |-> Str("Higher SFR"), stone_free_rate |-> None,
     methodology_quality |-> Str("good"), limitations |-> Str("Small sample"),
     pmid |-> Missing, abstract |-> Missing]

RelevantPayload == [BasePayload EXCEPT !.is_relevant = Bool("true")]

\* The answers of the runs of several papers
Payloads ==
    { BasePayload, RelevantPayload,
      [RelevantPayload EXCEPT !.pmid = Str("999"), !.abstract = Str("LLM abstract")],
      [BasePayload EXCEPT !.is_relevant = Missing] }

\* The answers that give the fields of a union type each of their shapes
ShapePayloads ==
    { [BasePayload EXCEPT !.limitations = List(<<"Small sample", "Short follow-up">>)],
      [BasePayload EXCEPT !.limitations = None],
      [BasePayload EXCEPT !.key_findings = Map(<<<<"SFR", "str", "higher">>,
                                                <<"time", "str", "longer">>>>)],
      [BasePayload EXCEPT !.key_findings = None],
      [BasePayload EXCEPT !.stone_free_rate = Num("0.85")],
      [BasePayload EXCEPT !.stone_free_rate = Map(<<<<"in_situ", "num", "0.85">>,
                                                   <<"relocation", "num", "0.91">>>>)],
      [BasePayload EXCEPT !.stone_free_rate = Str("0.85")],
      [BasePayload EXCEPT !.stone_free_rate = Str("high")],
      [BasePayload EXCEPT !.stone_free_rate = List(<<"0.85">>)] }

\* The call of the collaborator raised (network, quota, transport)
CollaboratorFailure == [failed |-> TRUE, payload |-> NullRec]
Answer(p) == [failed |-> FALSE, payload |-> p]
Responses == {CollaboratorFailure} \cup { Answer(p) : p \in Payloads }
ShapeResponses == Responses \cup { Answer(p) : p \in ShapePayloads }
NoResponse == [failed |-> FALSE, payload |-> NullRec]

(***************************************************************************)
(* src/ss2.py: PaperEvaluator.evaluate_paper.  The client parses the       *)
(* answer with response_format=PaperAnalysis; a failed call and a failed   *)
(* validation both leave evaluate_paper as an exception.                   *)
(***************************************************************************)
evaluate_paper(r) ==
    IF r.failed THEN Raised("CollaboratorFailure") ELSE PaperAnalysis(r.payload)

(***************************************************************************)
(* src/streamlit_app.py: run_analysis.                                     *)
(***************************************************************************)
\* df.head(paper_limit).to_dict("records")
DfHead(d, n) == SubSeq(d, 1, IF n < Len(d) THEN n ELSE Len(d))

\* paper_info, as the values of a payload
PaperInfo(paper) ==
    [title |-> Str(paper.title), publication_date |-> Str(paper.publication_date),
     abstract |-> Str(paper.abstract), pmid |-> Str(paper.pmid)]

\* (a slip: the update is left out)
NoOverlay(d, info) == d

\* analysis_dict.update(paper_info)
Overlay(d, info) ==
    [f \in Fields |-> IF f \in DOMAIN info THEN info[f] ELSE d[f]]

\* (a slip: results.insert(0, updated_analysis))
PrependResult(rs, a) == <<a>> \o rs

\* results.append(updated_analysis)
AppendResult(rs, a) == Append(rs, a)

\* The body of the inner try for one paper: the analysis appended to results,
\* or the exception the except clause catches
Analyze(paper, r) ==
    LET a == evaluate_paper(r)
    IN  IF ~a.ok THEN a
        ELSE PaperAnalysis(Overlay(model_dump(a.rec), PaperInfo(paper)))

\* (a slip: the except clause stands outside the for loop)
AbortAfterError(i, n) == n + 1

\* The position the for loop goes to after the except clause handled a paper
AfterError(i, n) == i + 1

\* [paper.model_dump() for paper in results if paper.is_relevant]
IsRelevant(a) == a.is_relevant = Bool("true")
RelevantPapers(rs) == SelectSeq(rs, IsRelevant)

\* candidates.json
Absent == [state |-> "absent", entries |-> <<>>]
Json(es) == [state |-> "json", entries |-> es]
Truncated == [state |-> "truncated", entries |-> <<>>]

\* (a slip: the file is opened with mode "a" and merged)
AppendCandidates(old, relevant) == Json(old.entries \o relevant)

\* open("candidates.json", "w") and json.dump(relevant_papers, f): what the
\* file holds afterwards
WriteCandidates(old, relevant) == Json(relevant)

\* The value run_analysis returns
RetNone == [kind |-> "None", value |-> <<>>]
RetResults(rs) == [kind |-> "results", value |-> rs]
NoRet == [kind |-> "unset", value |-> <<>>]

\* (a slip: the outer except clause re-raises)
OuterReraise == "raise"

\* What the outer except clause of run_analysis does with an exception of the
\* code it guards: it reports it and returns None
OuterExcept == "return"

\* (a slip: the message of the outer except clause, which names no paper)
LogErrorOnly(title, err) ==
    [level |-> "error", kind |-> "paper", title |-> "", err |-> err]

\* st.error(f"Error analyzing paper: {title}\nError: {str(e)}")
LogPaperError(title, err) ==
    [level |-> "error", kind |-> "paper", title |-> title, err |-> err]
LogRunError(err) == [level |-> "error", kind |-> "run", title |-> "", err |-> err]
LogWarning(what) == [level |-> "warning", kind |-> what, title |-> "", err |-> ""]

NoAnalysis == Raised("")

InitRun ==
    /\ pc = "idle"
    /\ papers = <<>>
    /\ idx = 1
    /\ results = <<>>
    /\ st_log = <<>>
    /\ calls = <<>>
    /\ skipped = {}
    /\ raw = NoResponse
    /\ analysis = NoAnalysis
    /\ file = Absent
    /\ file_before = Absent
    /\ write = "none"
    /\ ret = NoRet
    /\ exit = "idle"

InitParse ==
    /\ src_lines = <<>>
    /\ content = <<>>
    /\ df = <<>>
    /\ ppc = "start"

Init == InitRun /\ InitParse

\* What every call of run_analysis starts from
Fresh ==
    /\ idx' = 1
    /\ results' = <<>>
    /\ skipped' = {}
    /\ raw' = NoResponse
    /\ analysis' = NoAnalysis
    /\ file_before' = file
    /\ write' = "none"

\* main calls run_analysis and PaperEvaluator(openai_api_key) raises, the key
\* being unset: lines 118-119 stand before the try, so the caller gets it
StartRunNoKey ==
    /\ pc \in {"idle", "returned"}
    /\ Fresh
    /\ papers' = <<>>
    /\ calls' = <<>>
    /\ st_log' = <<>>
    /\ ret' = NoRet
    /\ exit' = "raise"
    /\ pc' = "returned"
    /\ UNCHANGED <<file, src_lines, content, df, ppc>>

\* main calls run_analysis(research_question, d, lim): lines 114-134
StartRun(d, lim) ==
    /\ pc \in {"idle", "returned"}
    /\ Fresh
    /\ papers' = DfHead(d, lim)
    /\ calls' = [i \in 1..Len(papers') |-> 0]
    /\ IF papers' = <<>>
       THEN /\ st_log' = <<LogWarning("no_papers")>>
            /\ ret' = RetNone
            /\ exit' = "return"
            /\ pc' = "returned"
       ELSE /\ st_log' = <<>>
            /\ ret' = NoRet
            /\ exit' = "running"
            /\ pc' = "loop"
    /\ UNCHANGED <<file, src_lines, content, df, ppc>>

\* One pass of the for loop, lines 138-176, the collaborator answering r
AnalyzePaper(r) ==
    /\ pc = "loop"
    /\ idx <= Len(papers)
    /\ LET paper == papers[idx]
           a == Analyze(paper, r)
       IN  /\ calls' = [calls EXCEPT ![idx] = @ + 1]
           /\ raw' = r
           /\ analysis' = evaluate_paper(r)
           /\ IF a.ok
              THEN /\ results' = AppendResult(results, a.rec)
                   /\ idx' = idx + 1
                   /\ UNCHANGED <<st_log, skipped>>
              ELSE /\ st_log' = Append(st_log, LogPaperError(paper.title, a.err))
                   /\ skipped' = skipped \cup {idx}
                   /\ idx' = AfterError(idx, Len(papers))
                   /\ UNCHANGED results
    /\ pc' = IF idx' > Len(papers) THEN "save" ELSE "loop"
    /\ UNCHANGED <<papers, file, file_before, write, ret, exit, src_lines, content, df, ppc>>

\* Lines 179-186 and 193: there is a relevant paper and the write succeeds
SaveCandidates ==
    /\ pc = "save"
    /\ results # <<>>
    /\ RelevantPapers(results) # <<>>
    /\ file' = WriteCandidates(file, RelevantPapers(results))
    /\ write' = "ok"
    /\ ret' = RetResults(results)
    /\ exit' = "return"
    /\ pc' = "returned"
    /\ UNCHANGED <<papers, idx, results, st_log, calls, skipped, raw, analysis,
                   file_before, src_lines, content, df, ppc>>

\* Lines 185-186 raise: open fails and leaves the file as it was, or open has
\* truncated it and the dump fails.  Lines 194-196 handle the exception.
SaveFails(opened) ==
    /\ pc = "save"
    /\ results # <<>>
    /\ RelevantPapers(results) # <<>>
    /\ file' = IF opened THEN Truncated ELSE file
    /\ write' = "failed"
    /\ exit' = OuterExcept
    /\ IF OuterExcept = "return"
       THEN /\ st_log' = Append(st_log, LogRunError("OSError"))
            /\ ret' = RetNone
       ELSE /\ ret' = NoRet
            /\ UNCHANGED st_log
    /\ pc' = "returned"
    /\ UNCHANGED <<papers, idx, results, calls, skipped, raw, analysis,
                   file_before, src_lines, content, df, ppc>>

\* Lines 179-193 with nothing to save: no result, or no relevant one
NothingToSave ==
    /\ pc = "save"
    /\ \/ results = <<>>
       \/ RelevantPapers(results) = <<>>
    /\ st_log' = IF results # <<>>
                 THEN Append(st_log, LogWarning("no_relevant"))
                 ELSE st_log
    /\ ret' = RetResults(results)
    /\ exit' = "return"
    /\ pc' = "returned"
    /\ UNCHANGED <<papers, idx, results, calls, skipped, raw, analysis,
                   file, file_before, write, src_lines, content, df, ppc>>

Next ==
    \/ StartRunNoKey
    \/ \E d \in Dfs, lim \in 1..MaxPapers : StartRun(d, lim)
    \/ \E r \in Responses : AnalyzePaper(r)
    \/ SaveCandidates
    \/ \E opened \in BOOLEAN : SaveFails(opened)
    \/ NothingToSave

Spec == Init /\ [][Next]_vars

\* Runs of one paper, the collaborator answering in every shape
OneRowDfs == { <<Uploaded[i]>> : i \in 1..2 }

NextShapes ==
    \/ StartRunNoKey
    \/ \E d \in OneRowDfs : StartRun(d, 1)
    \/ \E r \in ShapeResponses : AnalyzePaper(r)
    \/ SaveCandidates
    \/ \E opened \in BOOLEAN : SaveFails(opened)
    \/ NothingToSave

SpecShapes == Init /\ [][NextShapes]_vars

(***************************************************************************)
(* Properties of run_analysis.                                             *)
(***************************************************************************)
\* The papers the for loop has been through
Processed == IF pc = "loop" THEN idx - 1 ELSE Len(papers)

RECURSIVE Kept(_, _, _)
\* The first n papers of ps without those at the positions of skip, in order
Kept(ps, skip, n) ==
    IF n = 0 THEN <<>>
    ELSE IF n \in skip THEN Kept(ps, skip, n - 1)
    ELSE Append(Kept(ps, skip, n - 1), ps[n])

\* C1: the analyses of a run are its input records without the failed ones: as
\* many as the records that did not fail, each the analysis of the surviving
\* record at its position (the order of the input, nothing twice), during the
\* loop and in the sequence the run returns.
C1_OutputIsInputWithoutFailed ==
    LET kept == Kept(papers, skipped, Processed)
    IN  /\ Len(results) = Len(kept)
        /\ \A i \in DOMAIN results : results[i].pmid = Str(kept[i].pmid)
        /\ ret.kind = "results" =>
             /\ ret.value = results
             /\ Processed = Len(papers)

\* C1 witness: a run of three records whose second failed returned two analyses
C1_Witness ==
    /\ pc = "returned"
    /\ ret.kind = "results"
    /\ Len(papers) = 3
    /\ skipped = {2}
    /\ Len(ret.value) = 2

\* C2: title, publication_date, pmid and abstract of every analysis of the run
\* are those of the record it was made from, whatever the collaborator returned.
C2_OverlayFields ==
    LET kept == Kept(papers, skipped, Processed)
    IN  \A i \in DOMAIN results :
          i <= Len(kept) =>
            \A f \in {"title", "publication_date", "pmid", "abstract"} :
              results[i][f] = PaperInfo(kept[i])[f]

\* C2 witness: the collaborator returned a pmid, a title and an abstract of its
\* own, and the analysis was accepted
C2_Witness ==
    /\ results # <<>>
    /\ analysis.ok
    /\ raw.payload.pmid = Str("999")
    /\ raw.payload.title = Str("LLM title")
    /\ results[Len(results)].pmid # Str("999")

\* C3: the collaborator is invoked once for every record the loop has been
\* through and for none it has not reached; when the loop is over it has been
\* invoked once for every record of the input, failures or not.
C3_OneCallPerRecord ==
    /\ DOMAIN calls = DOMAIN papers
    /\ \A i \in DOMAIN calls : calls[i] = IF i <= Processed THEN 1 ELSE 0
    /\ pc \in {"save", "returned"} => \A i \in DOMAIN papers : calls[i] = 1

\* C3 witness: the first record failed and the loop went on to the others
C3_Witness ==
    /\ pc = "save"
    /\ Len(papers) = 3
    /\ 1 \in skipped
    /\ calls[2] = 1
    /\ calls[3] = 1

C5_WriteFailurePropagates ==
    (pc = "returned" /\ write = "failed") => exit = "raise"

\* C5 as amended: a failed write of the file is caught by run_analysis, which
\* reports the error and returns None; the caller gets no exception.
C5_WriteFailureReturnsNone ==
    (pc = "returned" /\ write = "failed") =>
        /\ exit = "return"
        /\ ret = RetNone
        /\ st_log # <<>>
        /\ st_log[Len(st_log)] = LogRunError("OSError")

\* C5 witness: the loop completed with a relevant analysis and the write failed
C5_Witness ==
    /\ pc = "returned"
    /\ write = "failed"
    /\ Processed = Len(papers)
    /\ RelevantPapers(results) # <<>>

\* The per-paper diagnostics the run has shown so far, in the order shown
IsPaperDiagnostic(e) == e.kind = "paper"
PaperDiagnostics == SelectSeq(st_log, IsPaperDiagnostic)

RECURSIVE Dropped(_, _, _)
\* Those of the first n papers of ps that stand at the positions of skip, in order
Dropped(ps, skip, n) ==
    IF n = 0 THEN <<>>
    ELSE IF n \in skip THEN Append(Dropped(ps, skip, n - 1), ps[n])
    ELSE Dropped(ps, skip, n - 1)

\* C11: the per-paper diagnostics of a run are, one for one and in order, the
\* records skipped so far: as many as the skipped records, each an error
\* message with the title of its record and an error text; the record just
\* processed is skipped, with the text of its own error as the last diagnostic,
\* exactly when its analysis raised, so a record that succeeds adds none.
C11_OneDiagnosticPerSkipped ==
    LET ds == PaperDiagnostics
        dropped == Dropped(papers, skipped, Processed)
    IN  /\ Len(ds) = Cardinality(skipped)
        /\ Len(ds) = Len(dropped)
        /\ \A i \in DOMAIN ds :
              /\ ds[i].level = "error"
              /\ ds[i].title = dropped[i].title
              /\ ds[i].err \in {"CollaboratorFailure", "ValidationError"}
        /\ (pc \in {"loop", "save"} /\ Processed >= 1) =>
              LET a == Analyze(papers[Processed], raw)
              IN  IF a.ok
                  THEN Processed \notin skipped
                  ELSE /\ Processed \in skipped
                       /\ ds[Len(ds)] = [level |-> "error", kind |-> "paper",
                                         title |-> papers[Processed].title,
                                         err |-> a.err]

\* C11 witness: a run of three records returned after its first record failed
\* in the call of the collaborator, its second succeeded and its third failed
\* validation: two diagnostics, one of each error
C11_Witness ==
    /\ pc = "returned"
    /\ ret.kind = "results"
    /\ Len(papers) = 3
    /\ skipped = {1, 3}
    /\ Len(PaperDiagnostics) = 2
    /\ PaperDiagnostics[1].err = "CollaboratorFailure"
    /\ PaperDiagnostics[2].err = "ValidationError"

(***************************************************************************)
(* Properties of the validation of the collaborator's answer               *)
(* (PaperAnalysis), read off the last answer and what evaluate_paper made  *)
(* of it.                                                                  *)
(***************************************************************************)
\* The collaborator answered the paper at hand
Answered == pc \in {"loop", "save", "returned"} /\ Processed >= 1 /\ ~raw.failed

\* The answers whose every field but limitations and key_findings is valid
CoerciblePayloads ==
    { p \in ShapePayloads \cup {BasePayload, RelevantPayload} :
        /\ p.is_relevant.shape = "bool"
        /\ p.stone_free_rate.shape = "none" }

\* C8 as stated: a list of strings given as limitations is joined with ". ", a
\* mapping given as key_findings is rendered "<key>: <value>" joined with ". ",
\* neither field is list- or mapping-shaped afterwards, and no such answer is
\* rejected.
C8_ListAndMappingCoerced ==
    (Answered /\ raw.payload \in CoerciblePayloads) =>
        /\ analysis.ok
        /\ analysis.rec.limitations.shape \notin {"list", "map"}
        /\ analysis.rec.key_findings.shape \notin {"list", "map"}
        /\ raw.payload.limitations = List(<<"Small sample", "Short follow-up">>)
             => analysis.rec.limitations = Str("Small sample. Short follow-up")
        /\ raw.payload.key_findings = Map(<<<<"SFR", "str", "higher">>,
                                            <<"time", "str", "longer">>>>)
             => analysis.rec.key_findings = Str("SFR: higher. time: longer")

\* What the code does keep of C8: an accepted analysis has neither field list-
\* or mapping-shaped.
C8_AcceptedAreScalar ==
    (Answered /\ analysis.ok) =>
        /\ analysis.rec.limitations.shape \in {"str", "none"}
        /\ analysis.rec.key_findings.shape \in {"str", "none"}

\* C9 as stated: for every answer whose limitations and key_findings have one
\* of their allowed shapes, normalizing yields an analysis, and normalizing that
\* analysis again yields the same analysis.
C9_NormalizeIdempotent ==
    (Answered /\ raw.payload \in CoerciblePayloads) =>
        /\ analysis.ok
        /\ PaperAnalysis(model_dump(analysis.rec)) = Returned(analysis.rec)

\* What the code does keep of C9: validating an accepted analysis again
\* changes nothing.
C9_IdempotentOnAccepted ==
    (Answered /\ analysis.ok) =>
        PaperAnalysis(model_dump(analysis.rec)) = Returned(analysis.rec)

\* C10 as stated: a number or a mapping of group name to number given as
\* stone_free_rate is kept as it is, and every other shape that is given, a
\* string included, is rejected.
C10_StoneFreeRateShapes ==
    (Answered /\ raw.payload.is_relevant.shape = "bool") =>
        LET sfr == raw.payload.stone_free_rate
        IN  /\ sfr.shape \in {"num", "map"} =>
                 analysis.ok /\ analysis.rec.stone_free_rate = sfr
            /\ sfr.shape \in {"str", "list"} => ~analysis.ok

\* What the code does keep of C10: the two permitted shapes pass unchanged, a
\* list and a string that is no number are rejected.
C10_PermittedShapesUnchanged ==
    (Answered /\ raw.payload.is_relevant.shape = "bool") =>
        LET sfr == raw.payload.stone_free_rate
        IN  /\ sfr.shape \in {"num", "map"} =>
                 analysis.ok /\ analysis.rec.stone_free_rate = sfr
            /\ (sfr.shape = "list" \/ sfr = Str("high")) => ~analysis.ok

(***************************************************************************)
(* src/streamlit_app.py: the parser of the PubMed flat file.  A text is a  *)
(* sequence of characters; the regular expressions are modelled by what    *)
(* re.search returns for them: the leftmost match, a greedy quantifier     *)
(* giving characters back only when the rest cannot match otherwise.       *)
(***************************************************************************)
\* \s
Whitespace == {" ", "\n", "\t", "\r"}
\* [A-Z]
Upper == {"A", "B", "C", "D", "E", "F", "G", "H", "I", "J", "K", "L", "M",
          "N", "O", "P", "Q", "R", "S", "T", "U", "V", "W", "X", "Y", "Z"}
\* \d
Digits == {"0", "1", "2", "3", "4", "5", "6", "7", "8", "9"}

Min(S) == CHOOSE x \in S : \A y \in S : x <= y
Max(S) == CHOOSE x \in S : \A y \in S : x >= y

\* s[from:]
From(s, i) == SubSeq(s, i, Len(s))

\* The text pat stands in s at position i
At(s, i, pat) ==
    /\ i + Len(pat) - 1 <= Len(s)
    /\ \A k \in 1..Len(pat) : s[i + k - 1] = pat[k]

RECURSIVE RunEnd(_, _, _)
\* Where a greedy run of characters of C that starts at i ends: the first
\* position from i on whose character is not in C, Len(s) + 1 if there is none
RunEnd(s, i, C) ==
    IF i > Len(s) \/ s[i] \notin C THEN i ELSE RunEnd(s, i + 1, C)

\* Where a greedy run of [^\n] that starts at i ends
LineEnd(s, i) ==
    LET nls == { j \in i..Len(s) : s[j] = "\n" }
    IN  IF nls = {} THEN Len(s) + 1 ELSE Min(nls)

\* str.strip()
Strip(t) ==
    LET ink == { i \in 1..Len(t) : t[i] \notin Whitespace }
    IN  IF ink = {} THEN <<>> ELSE SubSeq(t, Min(ink), Max(ink))

RECURSIVE JoinStrippedLines(_)
\* " ".join(line.strip() for line in t.split("\n"))
JoinStrippedLines(t) ==
    LET nls == { i \in 1..Len(t) : t[i] = "\n" }
    IN  IF nls = {} THEN Strip(t)
        ELSE Strip(SubSeq(t, 1, Min(nls) - 1)) \o <<" ">>
               \o JoinStrippedLines(From(t, Min(nls) + 1))

RECURSIVE CollapseWhitespace(_)
\* re.sub(r"\s+", " ", t)
CollapseWhitespace(t) ==
    LET ws == { i \in 1..Len(t) : t[i] \in Whitespace }
    IN  IF ws = {} THEN t
        ELSE SubSeq(t, 1, Min(ws) - 1) \o <<" ">>
               \o CollapseWhitespace(From(t, RunEnd(t, Min(ws), Whitespace)))

\* df[col].str.replace(r"\s+", " ", regex=True).str.strip()
CleanField(t) == Strip(CollapseWhitespace(t))

RECURSIVE ReplaceCRLF(_)
\* content.replace("\r\n", "\n")
ReplaceCRLF(t) ==
    LET hits == { i \in 1..Len(t) : At(t, i, <<"\r", "\n">>) }
    IN  IF hits = {} THEN t
        ELSE SubSeq(t, 1, Min(hits) - 1) \o <<"\n">>
               \o ReplaceCRLF(From(t, Min(hits) + 2))

RECURSIVE Split(_, _)
\* t.split(sep)
Split(t, sep) ==
    LET hits == { i \in 1..Len(t) : At(t, i, sep) }
    IN  IF hits = {} THEN <<t>>
        ELSE <<SubSeq(t, 1, Min(hits) - 1)>>
               \o Split(From(t, Min(hits) + Len(sep)), sep)

PmidCode == <<"P", "M", "I", "D", "-">>
PmidPrefix == <<"P", "M", "I", "D", "-", " ">>
EntrySeparator == <<"\n", "\n", "P", "M", "I", "D", "-", " ">>

\* re.search(r"PMID-\s*(\d+)", entry): group 1, empty when there is no match
ExtractPmid(entry) ==
    LET starts == { i \in 1..Len(entry) :
                      /\ At(entry, i, PmidCode)
                      /\ LET d == RunEnd(entry, i + 5, Whitespace)
                         IN  d <= Len(entry) /\ entry[d] \in Digits }
    IN  IF starts = {} THEN <<>>
        ELSE LET d == RunEnd(entry, Min(starts) + 5, Whitespace)
             IN  SubSeq(entry, d, RunEnd(entry, d, Digits) - 1)

\* "<code>\s*-" matched at position i: the position after the "-", 0 if the
\* pattern does not match there
HeadEnd(s, i, code) ==
    IF ~At(s, i, code) THEN 0
    ELSE LET h == RunEnd(s, i + Len(code), Whitespace)
         IN  IF h <= Len(s) /\ s[h] = "-" THEN h + 1 ELSE 0

\* The lookahead (?=\n[A-Z]{2,}\s*-) holds at position e
NextFieldAt(s, e) ==
    /\ e <= Len(s)
    /\ s[e] = "\n"
    /\ LET u == RunEnd(s, e + 1, Upper)
           w == RunEnd(s, u, Whitespace)
       IN  /\ u - (e + 1) >= 2
           /\ w <= Len(s)
           /\ s[w] = "-"

\* Where the value of a title or an abstract may end, from position p on
ValueEnds(s, p) == { e \in p..Len(s) : NextFieldAt(s, e) }

\* re.search(r"<code>\s*-\s*(.*?)(?=\n[A-Z]{2,}\s*-)", entry, re.DOTALL):
\* whether it matches, and group 1
SearchField(entry, code) ==
    LET heads == { i \in 1..Len(entry) :
                     /\ HeadEnd(entry, i, code) # 0
                     /\ ValueEnds(entry, HeadEnd(entry, i, code)) # {} }
    IN  IF heads = {} THEN [found |-> FALSE, group |-> <<>>]
        ELSE LET p == HeadEnd(entry, Min(heads), code)
                 g == RunEnd(entry, p, Whitespace)
                 late == { e \in ValueEnds(entry, p) : e >= g }
             IN  IF late # {}
                 THEN [found |-> TRUE, group |-> SubSeq(entry, g, Min(late) - 1)]
                 ELSE [found |-> TRUE, group |-> <<>>]

\* Lines 32-48: the title, and the abstract likewise
ExtractText(entry, code) ==
    LET m == SearchField(entry, code)
    IN  IF m.found THEN JoinStrippedLines(m.group) ELSE <<>>

\* re.search(r"DP\s*-\s*([^\n]+)", entry) and date_text = group(1).strip():
\* empty also when there is no match (either way pub_date stays "")
DateText(entry) ==
    LET heads == { i \in 1..Len(entry) : HeadEnd(entry, i, <<"D", "P">>) # 0 }
    IN  IF heads = {} THEN <<>>
        ELSE LET p == HeadEnd(entry, Min(heads), <<"D", "P">>)
                 g == RunEnd(entry, p, Whitespace)
             IN  IF g > Len(entry) THEN <<>>
                 ELSE Strip(SubSeq(entry, g, LineEnd(entry, g) - 1))

Months ==
    << <<"J", "a", "n">>, <<"F", "e", "b">>, <<"M", "a", "r">>,
       <<"A", "p", "r">>, <<"M", "a", "y">>, <<"J", "u", "n">>,
       <<"J", "u", "l">>, <<"A", "u", "g">>, <<"S", "e", "p">>,
       <<"O", "c", "t">>, <<"N", "o", "v">>, <<"D", "e", "c">> >>

\* Lines 55-62: "Mon YYYY", "YYYY" or ""
NormalizeDate(date_text) ==
    LET years == { i \in 1..Len(date_text) :
                     /\ i + 3 <= Len(date_text)
                     /\ \A k \in 0..3 : date_text[i + k] \in Digits }
        months == { i \in 1..Len(date_text) :
                      \E m \in DOMAIN Months : At(date_text, i, Months[m]) }
    IN  IF years # {} /\ months # {}
        THEN SubSeq(date_text, Min(months), Min(months) + 2) \o <<" ">>
               \o SubSeq(date_text, Min(years), Min(years) + 3)
        ELSE IF years # {}
        THEN SubSeq(date_text, Min(years), Min(years) + 3)
        ELSE <<>>

parse_pubmed_entry(entry) ==
    [pmid |-> ExtractPmid(entry),
     title |-> ExtractText(entry, <<"T", "I">>),
     abstract |-> ExtractText(entry, <<"A", "B">>),
     publication_date |-> NormalizeDate(DateText(entry))]

\* Lines 80-91: the entries, each with its "PMID- " prefix
Entries(text) ==
    LET parts == Split(text, EntrySeparator)
    IN  [k \in DOMAIN parts |->
           IF k = 1 /\ At(parts[1], 1, PmidPrefix)
           THEN parts[1]
           ELSE PmidPrefix \o parts[k]]

\* Lines 97-98: a blank entry is not parsed, and so has no pmid
ParsedEntry(entry) ==
    IF Strip(entry) # <<>>
    THEN parse_pubmed_entry(entry)
    ELSE [pmid |-> <<>>, title |-> <<>>, abstract |-> <<>>,
          publication_date |-> <<>>]

\* Line 99: if parsed["pmid"]
HasPmid(parsed) == parsed.pmid # <<>>

\* (a slip: the fields are left as parse_pubmed_entry made them)
NoCleanRow(r) == r

\* Lines 105-107
CleanRow(r) == [f \in DOMAIN r |-> CleanField(r[f])]

parse_pubmed_file(text) ==
    LET entries == Entries(ReplaceCRLF(text))
        kept == SelectSeq([k \in DOMAIN entries |-> ParsedEntry(entries[k])], HasPmid)
    IN  [k \in DOMAIN kept |-> CleanRow(kept[k])]

(***************************************************************************)
(* The uploaded files: every sequence of at most MaxLines of the lines     *)
(* below, and the file of the specification's example.                     *)
(***************************************************************************)
LinePmid123 ==
    <<"P", "M", "I", "D", "-", " ", "1", "2", "3", "\n">>
LinePmid7 ==
    <<"P", "M", "I", "D", "-", " ", "7", "\n">>
LineTitle ==
    <<"T", "I", " ", " ", "-", " ", "H", "e", "l", "l", "o", "\n">>
LineCont ==
    <<" ", " ", " ", " ", " ", " ", "W", "o", "r", "l", "d", "\n">>
LineAbstract ==
    <<"A", "B", " ", " ", "-", " ", "S", "o", "m", "e", " ", "t", "e", "x", "t", ".", "\n">>
LineExampleAbstract ==
    <<"A", "B", " ", " ", "-", " ", "S", "o", "m", "e", " ", "a", "b", "s", "t", "r", "a", "c", "t">>
      \o <<" ", "t", "e", "x", "t", ".", "\n">>
LineDate ==
    <<"D", "P", " ", " ", "-", " ", "2", "0", "2", "0", " ", "J", "a", "n",
    " ", "1", "5", "\n">>
LineBlank ==
    <<"\n">>
LineDigits ==
    <<"1", "2", " ", "x", "\n">>
LineWide ==
    <<" ", " ", " ", " ", " ", " ", "a", " ", " ", "b", "\n">>

Lines == {LinePmid123, LinePmid7, LineTitle, LineCont, LineAbstract, LineDate,
          LineBlank, LineDigits, LineWide}

ExampleFile == <<LinePmid123, LineTitle, LineCont, LineExampleAbstract, LineDate>>

Files == UNION { [1..k -> Lines] : k \in 0..MaxLines } \cup {ExampleFile}

RECURSIVE Flatten(_)
\* The text of a file given line by line
Flatten(ls) == IF ls = <<>> THEN <<>> ELSE Head(ls) \o Flatten(Tail(ls))

\* main, lines 243-244: uploaded_file.getvalue().decode("utf-8")
Upload ==
    /\ ppc = "start"
    /\ \E ls \in Files :
         /\ src_lines' = ls
         /\ content' = Flatten(ls)
    /\ ppc' = "uploaded"
    /\ UNCHANGED <<df, pc, papers, idx, results, st_log, calls, skipped, raw,
                   analysis, file, file_before, write, ret, exit>>

\* main, line 245: st.session_state.df = parse_pubmed_file(content)
ParseFile ==
    /\ ppc = "uploaded"
    /\ df' = parse_pubmed_file(content)
    /\ ppc' = "parsed"
    /\ UNCHANGED <<src_lines, content, pc, papers, idx, results, st_log, calls,
                   skipped, raw, analysis, file, file_before, write, ret, exit>>

NextParse ==
    \/ Upload
    \/ ParseFile

SpecParse == Init /\ [][NextParse]_vars

(***************************************************************************)
(* Properties of parse_pubmed_file.                                        *)
(***************************************************************************)
\* The chunks of a text as they stand in it: what the record boundary (a blank
\* line followed by "PMID- ") separates, each later chunk with the "PMID- " that
\* begins it
SourceChunks(text) ==
    LET parts == Split(ReplaceCRLF(text), EntrySeparator)
    IN  [k \in DOMAIN parts |-> IF k = 1 THEN parts[1] ELSE PmidPrefix \o parts[k]]

\* The chunk has an identifier line: a line that begins "PMID-" and digits
HasIdentifierLine(chunk) ==
    \E i \in 1..Len(chunk) :
        /\ i = 1 \/ chunk[i - 1] = "\n"
        /\ At(chunk, i, PmidCode)
        /\ LET d == RunEnd(chunk, i + 5, {" "})
           IN  d <= Len(chunk) /\ chunk[d] \in Digits

\* C6 as stated: the records of the output are as many as the non-empty chunks
\* less the chunks that have no identifier line, the first chunk included.
C6_IdentifierlessChunksDropped ==
    ppc = "parsed" =>
        LET chunks == SourceChunks(content)
        IN  Len(df) = Cardinality({ k \in DOMAIN chunks :
                                      /\ Strip(chunks[k]) # <<>>
                                      /\ HasIdentifierLine(chunks[k]) })

\* The first chunk of the text begins, after blanks, with a digit
FirstChunkDigitLed ==
    LET first == Strip(SourceChunks(content)[1])
    IN  first # <<>> /\ first[1] \in Digits

\* What the code does keep of C6: the count is right whenever the first chunk
\* does not begin with a digit.
C6_HoldsUnlessFirstChunkDigitLed ==
    (ppc = "parsed" /\ ~FirstChunkDigitLed) =>
        LET chunks == SourceChunks(content)
        IN  Len(df) = Cardinality({ k \in DOMAIN chunks :
                                      /\ Strip(chunks[k]) # <<>>
                                      /\ HasIdentifierLine(chunks[k]) })

\* What a line of the uploaded files is, and the value it states
LineKind(l) ==
    CASE l \in {LinePmid123, LinePmid7} -> "pmid"
      [] l = LineTitle -> "ti"
      [] l \in {LineAbstract, LineExampleAbstract} -> "ab"
      [] l = LineDate -> "dp"
      [] l = LineCont -> "cont"
      [] l = LineBlank -> "blank"
      [] OTHER -> "junk"

LineValue(l) ==
    CASE l = LinePmid123 -> <<"1", "2", "3">>
      [] l = LinePmid7 -> <<"7">>
      [] l = LineTitle -> <<"H", "e", "l", "l", "o">>
      [] l = LineCont -> <<"W", "o", "r", "l", "d">>
      [] l = LineAbstract -> <<"S", "o", "m", "e", " ", "t", "e", "x", "t", ".">>
      [] l = LineExampleAbstract ->
           <<"S", "o", "m", "e", " ", "a", "b", "s", "t", "r", "a", "c", "t">>
             \o <<" ", "t", "e", "x", "t", ".">>
      [] l = LineDate -> <<"J", "a", "n", " ", "2", "0", "2", "0">>
      [] OTHER -> <<>>

RECURSIVE Blocks(_)
\* The records of a file given line by line: what its blank lines separate
Blocks(ls) ==
    LET blanks == { i \in 1..Len(ls) : ls[i] = LineBlank }
    IN  IF blanks = {} THEN <<ls>>
        ELSE <<SubSeq(ls, 1, Min(blanks) - 1)>> \o Blocks(From(ls, Min(blanks) + 1))

\* One record: an identifier line, then title, abstract and date lines, each at
\* most once, a continuation line only under a title or an abstract
WellFormedBlock(b) ==
    /\ b # <<>>
    /\ LineKind(b[1]) = "pmid"
    /\ \A j \in 2..Len(b) :
         /\ LineKind(b[j]) \in {"ti", "ab", "dp", "cont"}
         /\ LineKind(b[j]) = "cont" => LineKind(b[j - 1]) \in {"ti", "ab", "cont"}
         /\ \A k \in 2..Len(b) :
              (k # j /\ LineKind(b[k]) = LineKind(b[j])) => LineKind(b[j]) = "cont"

\* Identifier-led records, one blank line between two of them
WellFormed(ls) ==
    /\ ls # <<>>
    /\ \A k \in DOMAIN Blocks(ls) : WellFormedBlock(Blocks(ls)[k])

RECURSIVE JoinValues(_)
JoinValues(b) ==
    IF b = <<>> THEN <<>>
    ELSE IF Len(b) = 1 THEN LineValue(b[1])
    ELSE LineValue(b[1]) \o <<" ">> \o JoinValues(Tail(b))

\* The value a record states for a field: its line and the continuation lines
\* under it
StatedValue(b, kind) ==
    LET at == { j \in 1..Len(b) : LineKind(b[j]) = kind }
    IN  IF at = {} THEN <<>>
        ELSE LET h == Min(at)
                 after == { j \in (h + 1)..Len(b) : LineKind(b[j]) # "cont" }
                 e == IF after = {} THEN Len(b) ELSE Min(after) - 1
             IN  JoinValues(SubSeq(b, h, e))

StatedRecord(b) ==
    [pmid |-> LineValue(b[1]),
     title |-> StatedValue(b, "ti"),
     abstract |-> StatedValue(b, "ab"),
     publication_date |-> StatedValue(b, "dp")]

\* C7 as stated: a well-formed file of N records parses to N rows, in source
\* order, each with the identifier, title, abstract and date of its own record.
C7_WellFormedParsesExactly ==
    (ppc = "parsed" /\ WellFormed(src_lines)) =>
        df = [k \in DOMAIN Blocks(src_lines) |-> StatedRecord(Blocks(src_lines)[k])]

\* The record's title and abstract are each followed by another field line
FieldsFollowed(b) ==
    \A j \in 2..Len(b) :
        LineKind(b[j]) \in {"ti", "ab"} =>
            \E k \in (j + 1)..Len(b) : LineKind(b[k]) \in {"ti", "ab", "dp"}

\* What the code does keep of C7: N rows in source order with the identifier
\* and the date of their records, and the title and abstract too of a record
\* in which another field line follows them.
C7_HoldsWhenFieldsFollowed ==
    (ppc = "parsed" /\ WellFormed(src_lines)) =>
        LET bs == Blocks(src_lines)
        IN  /\ Len(df) = Len(bs)
            /\ \A k \in DOMAIN bs :
                 /\ df[k].pmid = StatedRecord(bs[k]).pmid
                 /\ df[k].publication_date = StatedRecord(bs[k]).publication_date
                 /\ FieldsFollowed(bs[k]) => df[k] = StatedRecord(bs[k])

\* The example of the specification parses as it says
C7_ExampleParsed ==
    (ppc = "parsed" /\ src_lines = ExampleFile) =>
        df = <<StatedRecord(ExampleFile)>>

\* The entries of a text that parse_pubmed_file keeps, in order
EntryHasPmid(entry) == HasPmid(ParsedEntry(entry))
KeptEntries(text) == SelectSeq(Entries(ReplaceCRLF(text)), EntryHasPmid)

\* Where the field code of a chunk stands: the position after the "-" of its
\* first "<code>\s*-", 0 when the chunk has no such field
FieldStart(entry, code) ==
    LET heads == { i \in 1..Len(entry) : HeadEnd(entry, i, code) # 0 }
    IN  IF heads = {} THEN 0 ELSE HeadEnd(entry, Min(heads), code)

\* The field is followed, in its chunk, by a line that starts with a field code
FieldFollowed(entry, code) ==
    /\ FieldStart(entry, code) # 0
    /\ ValueEnds(entry, FieldStart(entry, code)) # {}

\* The value of the field as stated: from the field code up to the next line
\* that starts with a field code, or up to the end of the chunk when there is
\* none; its lines stripped and joined, its whitespace collapsed
StatedText(entry, code) ==
    LET p == FieldStart(entry, code)
    IN  IF p = 0 THEN <<>>
        ELSE LET ends == ValueEnds(entry, p)
                 last == IF ends = {} THEN Len(entry) ELSE Min(ends) - 1
             IN  CleanField(JoinStrippedLines(SubSeq(entry, p, last)))

\* C12: the title and the abstract of every parsed record are the values of
\* the TI and AB fields of its chunk, each running up to the next line that
\* starts with a field code or, when none follows, up to the end of the chunk:
\* a title or abstract that is the last field of its chunk is there in full.
\* (Read on the files whose chunks carry their own identifier line.)
C12_LastFieldExtractedInFull ==
    (ppc = "parsed" /\ ~FirstChunkDigitLed) =>
        LET kept == KeptEntries(content)
        IN  /\ Len(df) = Len(kept)
            /\ \A k \in DOMAIN df :
                  /\ df[k].title = StatedText(kept[k], <<"T", "I">>)
                  /\ df[k].abstract = StatedText(kept[k], <<"A", "B">>)

\* What the code does keep of C12: a title or an abstract that another field
\* line follows is extracted up to that line; one that is the last field of
\* its chunk is extracted as the empty string.
C12_ExtractedOnlyWhenFollowed ==
    ppc = "parsed" =>
        LET kept == KeptEntries(content)
        IN  /\ Len(df) = Len(kept)
            /\ \A k \in DOMAIN df :
                  /\ df[k].title =
                       IF FieldFollowed(kept[k], <<"T", "I">>)
                       THEN StatedText(kept[k], <<"T", "I">>) ELSE <<>>
                  /\ df[k].abstract =
                       IF FieldFollowed(kept[k], <<"A", "B">>)
                       THEN StatedText(kept[k], <<"A", "B">>) ELSE <<>>

\* The text has a line break or a run of two or more spaces
Uncollapsed(t) ==
    \/ \E i \in 1..Len(t) : t[i] = "\n"
    \/ \E i \in 1..(Len(t) - 1) : t[i] = " " /\ t[i + 1] = " "

====
